---- MODULE Spec2Model ----
(***************************************************************************)
(* The request execution pipeline of better-fetch                          *)
(* (packages/better-fetch/src/fetch.ts): betterFetch and handleError.      *)
(*                                                                         *)
(* One logical call is modelled.  The recursion of handleError into        *)
(* betterFetch (fetch.ts:77-80) is a tail call, so the model keeps the     *)
(* state of the invocation in progress, re-enters it at pc = "start" with  *)
(* the arguments of the recursive call, and hands the result of the last   *)
(* invocation back through one frame per earlier attempt.                  *)
(*                                                                         *)
(* Environment assumptions (stated here, used nowhere silently):           *)
(*  - hooks terminate, do not throw, and do not themselves consume the     *)
(*    body of the response object they are handed;                         *)
(*  - the transport follows the Fetch standard: it fails with the abort    *)
(*    exception exactly when the signal it was handed is aborted, and      *)
(*    Response.clone() of a response whose non-null body has been read     *)
(*    throws a TypeError.                                                  *)
(***************************************************************************)
EXTENDS Integers, Sequences, FiniteSets, TLC

VARIABLES
    call,               \* the arguments the caller passed to betterFetch
    url,                \* the url argument of the invocation in progress
    options,            \* the options argument of the invocation in progress
    pc,                 \* position of the pipeline
    hooks,              \* hook lists returned by initializePlugins for this attempt
    context,            \* the Request Context of this attempt
    response,           \* the working response of this attempt
    data,               \* successContext.data
    errorContext,       \* the argument of handleError
    i,                  \* index of the hook loop in progress
    active,             \* hooks that have been called and have not returned
    hookArg,            \* what the running hook was handed
    fetchArg,           \* the context the last transport call was handed
    timer,              \* the timeout timer of this attempt, and the clearTimeout() calls made
    controllerAborted,  \* controller.signal.aborted for this attempt's controller
    callerAborted,      \* options.signal.aborted
    result,             \* what the call returned or threw
    log,                \* history: the steps of the current attempt, in order
    fetchCalls,         \* history: transport invocations of the whole call
    errorRuns           \* history: invocations of each onError hook, whole call

vars == <<call, url, options, pc, hooks, context, response, data, errorContext, i, active,
          hookArg, fetchArg, timer, controllerAborted, callerAborted, result, log,
          fetchCalls, errorRuns>>

-----------------------------------------------------------------------------
(* Bounds *)

\* largest retry count a caller configures
MaxRetry == 1
\* length of every hook list returned by initializePlugins
NumHooks == 2

-----------------------------------------------------------------------------
(* Values *)

HookIdx == 1..NumHooks

Categories == {"onRequest", "onResponse", "onSuccess", "onError", "onRetry"}

\* the status of the synthetic error of a transport failure
NetworkErrorStatus == 0

StatusText(status) ==
    CASE status = 200 -> "OK"
      [] status = 404 -> "Not Found"
      [] status = 503 -> "Service Unavailable"
      [] OTHER -> ""

\* `undefined` where a response is expected
NoResponse == [ok |-> FALSE, status |-> -1, body |-> "undefined", bodyUsed |-> FALSE]

Resp(ok, status, body) ==
    [ok |-> ok, status |-> status, body |-> body, bodyUsed |-> FALSE]

\* responses the transport may resolve to: OK with a JSON or a binary body,
\* non-OK with a JSON body, a plain-text body or no body
TransportResponses ==
    {Resp(TRUE, 200, "json"), Resp(TRUE, 200, "blob"),
     Resp(FALSE, 404, "json"), Resp(FALSE, 503, "text"), Resp(FALSE, 503, "null")}

\* fresh responses an onResponse hook may substitute
HookResponses == {Resp(TRUE, 200, "json"), Resp(FALSE, 503, "text")}

\* `null` / absent error
NoError == [type |-> "null", status |-> -1, statusText |-> "", body |-> ""]

AbortError == [type |-> "AbortError", status |-> -1, statusText |-> "", body |-> ""]
TypeError == [type |-> "TypeError", status |-> -1, statusText |-> "", body |-> ""]
ValidationError == [type |-> "ValidationError", status |-> -1, statusText |-> "", body |-> ""]

NoErrorContext ==
    [response |-> NoResponse, error |-> NoError, throwError |-> "undefined", cloneResponse |-> FALSE]

NoContext ==
    [url |-> -1, method |-> "absent", body |-> "absent", signal |-> "absent",
     duplex |-> "absent", pipeTo |-> FALSE, output |-> FALSE, disableValidation |-> FALSE]

\* no hook is running
NoArg == [context |-> NoContext, response |-> NoResponse]

Pending == [kind |-> "pending", data |-> "null", error |-> NoError]

NoHooks == [c \in Categories |-> [k \in HookIdx |-> FALSE]]

-----------------------------------------------------------------------------
(* Call options *)

\* options.retry: absent, a plain number, or a linear policy with a
\* status-code allow-list
NoRetry == [kind |-> "none", count |-> 0, statusCodes |-> "any"]

RetryPolicies ==
    {NoRetry}
        \cup {[kind |-> "number", count |-> n, statusCodes |-> "any"] : n \in 0..MaxRetry}
        \cup {[kind |-> "linear", count |-> MaxRetry, statusCodes |-> "503"]}

\* options.method, options.body and options.plugins: a HEAD carries no body;
\* a POST carries a readable stream (it has `pipeTo`) or a pipe-style stream
\* (it has `pipe`), the latter made with a plugin whose init rewrites the url
\* and returns options of its own
Requests ==
    {[method |-> "HEAD", body |-> "none", plugin |-> FALSE],
     [method |-> "POST", body |-> "pipeTo", plugin |-> FALSE],
     [method |-> "POST", body |-> "pipe", plugin |-> TRUE]}

\* which entries of a hook list are defined (the loops skip undefined
\* entries): the undefined entries come first
HookMasks == {m \in [HookIdx -> BOOLEAN] : \A j, k \in HookIdx : (j < k /\ m[j]) => m[k]}

CallOptions ==
    [throw : BOOLEAN,
     retry : RetryPolicies,
     retryAttempt : {0},
     request : Requests,
     cloneResponse : BOOLEAN,
     output : BOOLEAN,
     disableValidation : BOOLEAN,
     timeout : BOOLEAN,
     signal : BOOLEAN,
     merged : {FALSE},
     hooks : HookMasks]

-----------------------------------------------------------------------------
(* Collaborators of the pipeline *)

\* initializePlugins(url, options): the resolved url and options and the
\* aggregated hook lists, one per category, plugins first, call-site last.
\* The plugin's init rewrites the url and returns options of its own: the
\* caller's, with something merged in and retryAttempt set back to 0.
initializePlugins(u, opt) ==
    [url |-> IF opt.request.plugin THEN u + 2 ELSE u,
     options |-> IF opt.request.plugin
                 THEN [opt EXCEPT !.merged = TRUE, !.retryAttempt = 0]
                 ELSE opt,
     hooks |-> [c \in Categories |-> opt.hooks]]

\* getBody(opts): a stream is passed through
getBody(opts) == opts.request.body

\* getMethod(url, opts): the explicit method
getMethod(opts) == opts.request.method

\* createRetryStrategy(options.retry).shouldAttemptRetry(attempt, response):
\* attempt < count, and the status is in the allow-list when there is an
\* allow-list and a response
InAllowList(retry, resp) ==
    \/ retry.statusCodes = "any"
    \/ resp = NoResponse
    \/ retry.statusCodes = "503" /\ resp.status = 503

shouldAttemptRetry(retry, attempt, resp) ==
    attempt < retry.count /\ InAllowList(retry, resp)

\* no timer is scheduled
NoTimer == [state |-> "idle", clears |-> 0]

\* getTimeout(opts, controller): arms a timer when a timeout is configured
getTimeout(opts) == [state |-> IF opts.timeout THEN "armed" ELSE "idle", clears |-> 0]

\* the disarm function getTimeout returns: idempotent, no effect on a timer
\* that has fired or was never armed; `clears` counts the calls
clearTimeout(t) ==
    [state |-> IF t.state = "armed" THEN "cleared" ELSE t.state, clears |-> t.clears + 1]

\* detectResponseType(response), from the kind of body the response carries
detectResponseType(resp) == IF resp.body = "blob" THEN "blob" ELSE IF resp.body = "text" THEN "text" ELSE "json"

\* isJSONParsable(text)
isJSONParsable(body) == body = "json"

\* the parser applied to the text of a body (jsonParse by default): the empty
\* text decodes to a defined empty value
Decoded(body) ==
    CASE body = "json" -> "json-value"
      [] body = "text" -> "text-value"
      [] body = "blob" -> "blob-value"
      [] OTHER -> "empty-value"

\* Response.clone() throws when the body is non-null and has been read
Unusable(resp) == resp.body # "null" /\ resp.bodyUsed

\* reading a body marks it used (a null body has nothing to mark)
Consume(resp) == [resp EXCEPT !.bodyUsed = (resp.body # "null")]

-----------------------------------------------------------------------------
(* State after construction: a call is about to be made *)

Init ==
    /\ options \in {o \in CallOptions : o.disableValidation => o.output}
    /\ url = 0
    /\ call = [url |-> url, options |-> options]
    /\ pc = "start"
    /\ hooks = NoHooks
    /\ context = NoContext
    /\ response = NoResponse
    /\ data = "null"
    /\ errorContext = NoErrorContext
    /\ i = 1
    /\ active = {}
    /\ hookArg = NoArg
    /\ fetchArg = NoContext
    /\ timer = NoTimer
    /\ controllerAborted = FALSE
    /\ callerAborted = FALSE
    /\ result = Pending
    /\ log = <<>>
    /\ fetchCalls = 0
    /\ errorRuns = [k \in HookIdx |-> 0]

-----------------------------------------------------------------------------
(* Helpers of the pipeline *)

\* `opts`, the options resolved by initializePlugins (fetch.ts:117)
Opts == initializePlugins(url, options).options

\* `await`: the pipeline goes on only when the hook it called has returned
Awaited == active = {}

\* handleError wraps the data the retried invocation returned into a pair
RetryResult_Wrapped(r) ==
    IF r.kind = "data" THEN [kind |-> "pair", data |-> r.data, error |-> r.error] ELSE r

\* fetch.ts:77: `return await fetchFn(...)`: what handleError makes of the
\* result of the invocation it started
RetryResult(r) == r

\* the result of the invocation in progress as the caller receives it: every
\* earlier attempt's handleError (and betterFetch, fetch.ts:176, 274) returns it
RECURSIVE Propagate(_, _)
Propagate(r, frames) == IF frames = 0 THEN r ELSE Propagate(RetryResult(r), frames - 1)

Returned(r) == Propagate(r, options.retryAttempt)

\* an exception leaves betterFetch: the call rejects
Throw(e) ==
    /\ pc' = "done"
    /\ result' = Returned([kind |-> "throw", data |-> "null", error |-> e])

\* the context is built without the signal
BuildContext_NoSignal(u, opts) ==
    [url |-> u,
     method |-> getMethod(opts),
     body |-> getBody(opts),
     signal |-> "absent",
     duplex |-> "absent",
     pipeTo |-> FALSE,
     output |-> opts.output,
     disableValidation |-> opts.disableValidation]

\* the Request Context built from the resolved options (fetch.ts:126-133)
BuildContext(u, opts) ==
    [url |-> u,
     method |-> getMethod(opts),
     body |-> getBody(opts),
     signal |-> IF opts.signal THEN "caller" ELSE "internal",
     duplex |-> "absent",
     pipeTo |-> FALSE,
     output |-> opts.output,
     disableValidation |-> opts.disableValidation]

\* what an onRequest hook may return: nothing, or an object of its own in
\* which only the url is set
Void == [isObject |-> FALSE, value |-> NoContext]

RequestResults ==
    {Void, [isObject |-> TRUE, value |-> [NoContext EXCEPT !.url = 1]]}

\* every onRequest hook handed the context as it was built
RequestHookArg_Initial == BuildContext(initializePlugins(url, options).url, Opts)

\* fetch.ts:139: the argument of an onRequest hook
RequestHookArg == context

\* fetch.ts:140-142: an object returned by the hook replaces the context
NextContext(ctx, res) == IF res.isObject THEN res.value ELSE ctx

\* fetch.ts:145-152: `"pipeTo" in context` looks at the context itself, and
\* `options?.body?.pipe` at the body of the caller's options
DuplexInference(ctx, opt) ==
    IF (ctx.pipeTo \/ opt.request.body = "pipe") /\ ctx.duplex = "absent"
    THEN [ctx EXCEPT !.duplex = "half"]
    ELSE ctx

\* the signal handed to the transport is aborted
SignalAborted(ctx) ==
    \/ ctx.signal = "caller" /\ callerAborted
    \/ ctx.signal = "internal" /\ controllerAborted

\* what the transport call may throw
TransportErrors(ctx) == IF SignalAborted(ctx) THEN {"AbortError"} ELSE {"NetworkFailure"}

\* no exception recognised as an abort
isAbortError_Never(fetchError) == FALSE

\* fetch.ts:162-163
isAbortError(fetchError) == fetchError = "AbortError"

\* the synthetic error without its status
networkError_NoStatus ==
    [type |-> "networkError", status |-> -1, statusText |-> "Network Error", body |-> "message"]

\* fetch.ts:168-174
networkError ==
    [type |-> "networkError", status |-> NetworkErrorStatus,
     statusText |-> "Network Error", body |-> "message"]

\* an onRetry hook runs whether or not the failed attempt has a response
HookRuns_AnyFailure(c, k) == hooks[c][k]

\* a hook entry that the loop of category c calls (fetch.ts:47, 68, 138, 197, 250)
HookRuns(c, k) ==
    /\ hooks[c][k]
    /\ c = "onRetry" => errorContext.response # NoResponse

-----------------------------------------------------------------------------
(* betterFetch, up to the transport call *)

\* fetch.ts:114-133
Begin ==
    /\ pc = "start"
    /\ LET r == initializePlugins(url, options) IN
        /\ hooks' = r.hooks
        /\ context' = BuildContext(r.url, r.options)
    /\ pc' = "onRequest"
    /\ i' = 1
    /\ controllerAborted' = FALSE
    /\ timer' = NoTimer
    /\ log' = <<>>
    /\ response' = NoResponse
    /\ data' = "null"
    /\ errorContext' = NoErrorContext
    /\ hookArg' = NoArg
    /\ fetchArg' = NoContext
    /\ UNCHANGED <<call, url, options, active, callerAborted, result, fetchCalls,
                   errorRuns>>

\* an undefined entry of a hook list (and an onRetry entry when there is no
\* response) is passed over
SkipHook ==
    /\ pc \in Categories
    /\ i \in HookIdx
    /\ Awaited
    /\ ~HookRuns(pc, i)
    /\ i' = i + 1
    /\ UNCHANGED <<call, url, options, pc, hooks, context, response, data, errorContext, active,
                   hookArg, fetchArg, timer, controllerAborted, callerAborted,
                   result, log, fetchCalls, errorRuns>>

\* fetch.ts:137-139: onRequest(context) is called
OnRequestCall ==
    /\ pc = "onRequest"
    /\ i \in HookIdx
    /\ Awaited
    /\ HookRuns("onRequest", i)
    /\ active' = active \cup {<<"onRequest", i>>}
    /\ hookArg' = [context |-> RequestHookArg, response |-> NoResponse]
    /\ log' = Append(log, <<"onRequest", i>>)
    /\ i' = i + 1
    /\ UNCHANGED <<call, url, options, pc, hooks, context, response, data, errorContext,
                   fetchArg, timer, controllerAborted, callerAborted, result,
                   fetchCalls, errorRuns>>

\* fetch.ts:139-142: the hook returns
OnRequestReturn ==
    /\ pc = "onRequest"
    /\ \E h \in active :
        /\ h[1] = "onRequest"
        /\ active' = active \ {h}
        /\ \E res \in RequestResults : context' = NextContext(context, res)
    /\ hookArg' = NoArg
    /\ UNCHANGED <<call, url, options, pc, hooks, response, data, errorContext, i,
                   fetchArg, timer, controllerAborted, callerAborted, result,
                   log, fetchCalls, errorRuns>>

\* fetch.ts:145-158: duplex inference, the timeout is armed, the transport is
\* called with the context
InvokeTransport ==
    /\ pc = "onRequest"
    /\ i > NumHooks
    /\ Awaited
    /\ context' = DuplexInference(context, options)
    /\ timer' = getTimeout(Opts)
    /\ fetchArg' = context'
    /\ fetchCalls' = fetchCalls + 1
    /\ log' = Append(log, <<"fetch", 0>>)
    /\ pc' = "fetch"
    /\ UNCHANGED <<call, url, options, hooks, response, data, errorContext, i, active, hookArg,
                   controllerAborted, callerAborted, result, errorRuns>>

-----------------------------------------------------------------------------
(* The environment: the timer and the caller's cancellation token *)

\* the timeout elapses: controller.abort()
TimerFires ==
    /\ timer.state = "armed"
    /\ timer' = [timer EXCEPT !.state = "fired"]
    /\ controllerAborted' = TRUE
    /\ UNCHANGED <<call, url, options, pc, hooks, context, response, data, errorContext, i,
                   active, hookArg, fetchArg, callerAborted, result, log,
                   fetchCalls, errorRuns>>

\* the caller aborts options.signal while the call is in progress
CallerAborts ==
    /\ options.signal
    /\ ~callerAborted
    /\ pc # "done"
    /\ callerAborted' = TRUE
    /\ UNCHANGED <<call, url, options, pc, hooks, context, response, data, errorContext, i,
                   active, hookArg, fetchArg, timer, controllerAborted, result, log,
                   fetchCalls, errorRuns>>

-----------------------------------------------------------------------------
(* The transport call settles *)

\* the catch block without its clearTimeout()
TimerAfterCatch_Leak == timer

\* fetch.ts:160: the timer after the catch block cleared it
TimerAfterCatch == clearTimeout(timer)

\* fetch.ts:189: the timer after the success path cleared it
TimerAfterFetch == clearTimeout(timer)

\* fetch.ts:176-186: handleError is entered for a transport failure
NetworkErrorContext ==
    [response |-> NoResponse, error |-> networkError, throwError |-> "undefined",
     cloneResponse |-> FALSE]

\* the abort exception wrapped into the structured error
Rethrown_Wrapped(fetchError) == [AbortError EXCEPT !.type = "BetterFetchError"]

\* fetch.ts:165: `throw fetchError`, the exception as the transport threw it
Rethrown(fetchError) == IF fetchError = "AbortError" THEN AbortError ELSE TypeError

\* fetch.ts:159-187: the transport call throws (the log names an abort
\* exception by 1, any other by 0)
FetchThrows ==
    /\ pc = "fetch"
    /\ \E fetchError \in TransportErrors(fetchArg) :
        /\ timer' = TimerAfterCatch
        /\ IF isAbortError(fetchError)
           THEN /\ Throw(Rethrown(fetchError))
                /\ log' = Append(log, <<"fetchThrew", 1>>)
                /\ UNCHANGED <<errorContext, i>>
           ELSE /\ errorContext' = NetworkErrorContext
                /\ pc' = "onError"
                /\ i' = 1
                /\ log' = log \o << <<"fetchThrew", 0>>, <<"handleError", 0>> >>
                /\ UNCHANGED result
    /\ UNCHANGED <<call, url, options, hooks, context, response, data, active, hookArg, fetchArg,
                   controllerAborted, callerAborted, fetchCalls, errorRuns>>

\* fetch.ts:158, 189-194: the transport call resolves to a response
FetchReturns ==
    /\ pc = "fetch"
    /\ ~SignalAborted(fetchArg)
    /\ \E r \in TransportResponses : response' = r
    /\ timer' = TimerAfterFetch
    /\ pc' = "onResponse"
    /\ i' = 1
    /\ UNCHANGED <<call, url, options, hooks, context, data, errorContext,
                   active, hookArg, fetchArg, controllerAborted, callerAborted,
                   result, log, fetchCalls, errorRuns>>

-----------------------------------------------------------------------------
(* betterFetch, after the transport call resolved *)

\* what an onResponse hook may return: nothing, a bare response, or an object
\* with a `response` field
ResponseResults ==
    {[shape |-> "void", response |-> NoResponse]}
        \cup {[shape |-> sh, response |-> r] : sh \in {"bare", "wrapped"}, r \in HookResponses}

\* fetch.ts:200-202: the argument of an onResponse hook (a clone has the
\* content of the response it was cloned from)
ResponseHookArg == response

\* what the hook returned is dropped
NextResponse_Ignored(resp, r) == resp

\* fetch.ts:204-208
NextResponse(resp, r) == IF r.shape = "void" THEN resp ELSE r.response

\* the hook loops of a category are over
LoopDone == i > NumHooks /\ Awaited

\* fetch.ts:196-203: onResponse is called, with a clone when configured
OnResponseCall ==
    /\ pc = "onResponse"
    /\ i \in HookIdx
    /\ Awaited
    /\ HookRuns("onResponse", i)
    /\ IF options.cloneResponse /\ Unusable(response)
       THEN /\ Throw(TypeError)
            /\ log' = Append(log, <<"clone", 1>>)
            /\ UNCHANGED <<active, hookArg, i>>
       ELSE /\ active' = active \cup {<<"onResponse", i>>}
            /\ hookArg' = [context |-> context, response |-> ResponseHookArg]
            /\ log' = IF options.cloneResponse
                      THEN log \o << <<"clone", 0>>, <<"onResponse", i>> >>
                      ELSE Append(log, <<"onResponse", i>>)
            /\ i' = i + 1
            /\ UNCHANGED <<pc, result>>
    /\ UNCHANGED <<call, url, options, hooks, context, response, data, errorContext, fetchArg,
                   timer, controllerAborted, callerAborted, fetchCalls,
                   errorRuns>>

\* fetch.ts:198-208: the hook returns
OnResponseReturn ==
    /\ pc = "onResponse"
    /\ \E h \in active :
        /\ h[1] = "onResponse"
        /\ active' = active \ {h}
        /\ \E r \in ResponseResults : response' = NextResponse(response, r)
    /\ hookArg' = NoArg
    /\ UNCHANGED <<call, url, options, pc, hooks, context, data, errorContext, i,
                   fetchArg, timer, controllerAborted, callerAborted, result,
                   log, fetchCalls, errorRuns>>

\* every response is taken to have a body to read
hasBody_Always == TRUE

\* fetch.ts:216: the method of the context decides whether a body is read
hasBody == context.method # "HEAD"

\* fetch.ts:215-222: an OK response to a HEAD request
ReturnHead ==
    /\ pc = "onResponse"
    /\ LoopDone
    /\ response.ok
    /\ ~hasBody
    /\ pc' = "done"
    /\ result' = Returned([kind |-> "pair", data |-> "", error |-> NoError])
    /\ UNCHANGED <<call, url, options, hooks, context, response, data, errorContext, i, active,
                   hookArg, fetchArg, timer, controllerAborted, callerAborted,
                   log, fetchCalls, errorRuns>>

\* fetch.ts:223-235: the body of an OK response is read and decoded
ReadBody ==
    /\ pc = "onResponse"
    /\ LoopDone
    /\ response.ok
    /\ hasBody
    /\ log' = Append(log, <<"read", 0>>)
    /\ IF Unusable(response)
       THEN /\ Throw(TypeError)
            /\ UNCHANGED <<response, data>>
       ELSE /\ response' = Consume(response)
            /\ data' = Decoded(response.body)
            /\ pc' = "validate"
            /\ UNCHANGED result
    /\ UNCHANGED <<call, url, options, hooks, context, errorContext, i, active, hookArg, fetchArg,
                   timer, controllerAborted, callerAborted, fetchCalls,
                   errorRuns>>

\* fetch.ts:240-241: the output schema is applied
Validates == context.output /\ ~context.disableValidation

\* a validation failure handed to handleError as if it were an HTTP error
OnValidationFailure_Handled ==
    /\ errorContext' = [response |-> response, error |-> [NoError EXCEPT !.type = "error"],
                        throwError |-> "undefined", cloneResponse |-> options.cloneResponse]
    /\ pc' = "onError"
    /\ i' = 1
    /\ UNCHANGED <<data, result>>

\* fetch.ts:242-245: parseStandardSchema throws; nothing catches it
OnValidationFailure ==
    /\ Throw(ValidationError)
    /\ UNCHANGED <<data, i, errorContext>>

\* fetch.ts:237-247: the decoded value is validated when a schema is set; the
\* schema accepts it or rejects it
Validate ==
    /\ pc = "validate"
    /\ IF Validates
       THEN \E valid \in BOOLEAN :
            IF valid
            THEN /\ data' = "validated"
                 /\ pc' = "onSuccess"
                 /\ i' = 1
                 /\ log' = Append(log, <<"validate", 1>>)
                 /\ UNCHANGED <<result, errorContext>>
            ELSE /\ OnValidationFailure
                 /\ log' = Append(log, <<"schemaRejected", 0>>)
       ELSE /\ pc' = "onSuccess"
            /\ i' = 1
            /\ log' = Append(log, <<"validate", 0>>)
            /\ UNCHANGED <<data, result, errorContext>>
    /\ UNCHANGED <<call, url, options, hooks, context, response, active, hookArg, fetchArg, timer,
                   controllerAborted, callerAborted, fetchCalls, errorRuns>>

\* fetch.ts:249-257: onSuccess is called, with a clone when configured
OnSuccessCall ==
    /\ pc = "onSuccess"
    /\ i \in HookIdx
    /\ Awaited
    /\ HookRuns("onSuccess", i)
    /\ IF options.cloneResponse /\ Unusable(response)
       THEN /\ Throw(TypeError)
            /\ log' = Append(log, <<"clone", 1>>)
            /\ UNCHANGED <<active, hookArg, i>>
       ELSE /\ active' = active \cup {<<"onSuccess", i>>}
            /\ hookArg' = [context |-> context, response |-> response]
            /\ log' = IF options.cloneResponse
                      THEN log \o << <<"clone", 0>>, <<"onSuccess", i>> >>
                      ELSE Append(log, <<"onSuccess", i>>)
            /\ i' = i + 1
            /\ UNCHANGED <<pc, result>>
    /\ UNCHANGED <<call, url, options, hooks, context, response, data, errorContext, fetchArg,
                   timer, controllerAborted, callerAborted, fetchCalls,
                   errorRuns>>

\* a hook whose result the pipeline ignores returns (onSuccess, onError, onRetry)
HookReturn ==
    /\ pc \in {"onSuccess", "onError", "onRetry"}
    /\ \E h \in active :
        /\ h[1] = pc
        /\ active' = active \ {h}
    /\ hookArg' = NoArg
    /\ UNCHANGED <<call, url, options, pc, hooks, context, response, data, errorContext, i,
                   fetchArg, timer, controllerAborted, callerAborted,
                   result, log, fetchCalls, errorRuns>>

\* fetch.ts:260-267
SuccessResult ==
    IF options.throw
    THEN [kind |-> "data", data |-> data, error |-> NoError]
    ELSE [kind |-> "pair", data |-> data, error |-> NoError]

\* fetch.ts:260-267: the call returns the data
ReturnSuccess ==
    /\ pc = "onSuccess"
    /\ LoopDone
    /\ pc' = "done"
    /\ result' = Returned(SuccessResult)
    /\ UNCHANGED <<call, url, options, hooks, context, response, data, errorContext, i, active,
                   hookArg, fetchArg, timer, controllerAborted, callerAborted,
                   log, fetchCalls, errorRuns>>

\* fetch.ts:274-291: the Error Context of a non-OK response whose text was read
HttpErrorContext(resp) ==
    [response |-> resp,
     error |-> [type |-> "error", status |-> resp.status,
                statusText |-> StatusText(resp.status),
                body |-> IF isJSONParsable(resp.body) THEN "json-fields" ELSE "none"],
     throwError |-> IF isJSONParsable(resp.body) THEN "json-value"
                    ELSE IF resp.body = "null" THEN "" ELSE "raw-text",
     cloneResponse |-> options.cloneResponse]

\* fetch.ts:269-291: the text of a non-OK response is read and handleError is
\* entered
ReadErrorText ==
    /\ pc = "onResponse"
    /\ LoopDone
    /\ ~response.ok
    /\ IF Unusable(response)
       THEN /\ Throw(TypeError)
            /\ log' = Append(log, <<"read", 0>>)
            /\ UNCHANGED <<response, errorContext, i>>
       ELSE /\ response' = Consume(response)
            /\ errorContext' = HttpErrorContext(response')
            /\ pc' = "onError"
            /\ i' = 1
            /\ log' = log \o << <<"read", 0>>, <<"handleError", 0>> >>
            /\ UNCHANGED result
    /\ UNCHANGED <<call, url, options, hooks, context, data, active, hookArg, fetchArg, timer,
                   controllerAborted, callerAborted, fetchCalls, errorRuns>>

-----------------------------------------------------------------------------
(* handleError *)

\* fetch.ts:50-53: response.clone() is evaluated for the hook's argument
ClonesForOnError == errorContext.cloneResponse /\ errorContext.response # NoResponse

\* fetch.ts:46-55: onError is called, with a clone when configured
OnErrorCall ==
    /\ pc = "onError"
    /\ i \in HookIdx
    /\ Awaited
    /\ HookRuns("onError", i)
    /\ IF ClonesForOnError /\ Unusable(errorContext.response)
       THEN /\ Throw(TypeError)
            /\ log' = Append(log, <<"clone", 1>>)
            /\ UNCHANGED <<active, hookArg, i, errorRuns>>
       ELSE /\ active' = active \cup {<<"onError", i>>}
            /\ hookArg' = [context |-> context, response |-> errorContext.response]
            /\ log' = IF ClonesForOnError
                      THEN log \o << <<"clone", 0>>, <<"onError", i>> >>
                      ELSE Append(log, <<"onError", i>>)
            /\ errorRuns' = [errorRuns EXCEPT ![i] = @ + 1]
            /\ i' = i + 1
            /\ UNCHANGED <<pc, result>>
    /\ UNCHANGED <<call, url, options, hooks, context, response, data, errorContext, fetchArg,
                   timer, controllerAborted, callerAborted, fetchCalls>>

\* fetch.ts:58: `if (options?.retry)`: a policy is set and is not the number 0
RetryConfigured == options.retry.kind # "none" /\ ~(options.retry.kind = "number" /\ options.retry.count = 0)

\* fetch.ts:60: `options.retryAttempt ?? 0`
RetryAttempt_Resolved == Opts.retryAttempt

RetryAttempt == options.retryAttempt

\* fetch.ts:58-66: the retry decision
WillRetry ==
    /\ RetryConfigured
    /\ shouldAttemptRetry(options.retry, RetryAttempt, errorContext.response)

\* fetch.ts:58-66: the decision is to retry; the onRetry hooks are next
DecideRetry ==
    /\ pc = "onError"
    /\ LoopDone
    /\ WillRetry
    /\ pc' = "onRetry"
    /\ i' = 1
    /\ log' = Append(log, <<"retryDecision", 1>>)
    /\ UNCHANGED <<call, url, options, hooks, context, response, data, errorContext, active,
                   hookArg, fetchArg, timer, controllerAborted, callerAborted,
                   result, fetchCalls, errorRuns>>

\* fetch.ts:67-73: onRetry is called
OnRetryCall ==
    /\ pc = "onRetry"
    /\ i \in HookIdx
    /\ Awaited
    /\ HookRuns("onRetry", i)
    /\ active' = active \cup {<<"onRetry", i>>}
    /\ hookArg' = [context |-> context, response |-> errorContext.response]
    /\ log' = Append(log, <<"onRetry", i>>)
    /\ i' = i + 1
    /\ UNCHANGED <<call, url, options, pc, hooks, context, response, data, errorContext,
                   fetchArg, timer, controllerAborted, callerAborted, result,
                   fetchCalls, errorRuns>>

\* fetch.ts:75-76: the retry delay starts
Delay ==
    /\ pc = "onRetry"
    /\ LoopDone
    /\ pc' = "delay"
    /\ log' = Append(log, <<"delay", 0>>)
    /\ UNCHANGED <<call, url, options, hooks, context, response, data, errorContext, i, active,
                   hookArg, fetchArg, timer, controllerAborted, callerAborted,
                   result, fetchCalls, errorRuns>>

\* the retry is given the url and options the attempt resolved
RetryArgs_Resolved ==
    [url |-> context.url, options |-> [Opts EXCEPT !.retryAttempt = options.retryAttempt + 1]]

\* handleError's own url and options parameters are what betterFetch was
\* called with (fetch.ts:183-184, 286-287)
RetryArgs == [url |-> url, options |-> [options EXCEPT !.retryAttempt = RetryAttempt + 1]]

\* fetch.ts:77-80: the delay is over; betterFetch is called again with the
\* caller's url and options and retryAttempt + 1, and its result is returned
Retry ==
    /\ pc = "delay"
    /\ url' = RetryArgs.url
    /\ options' = RetryArgs.options
    /\ pc' = "start"
    /\ UNCHANGED <<call, hooks, context, response, data, errorContext, i, active, hookArg,
                   fetchArg, timer, controllerAborted, callerAborted, result,
                   log, fetchCalls, errorRuns>>

\* fetch.ts:85-89
BetterFetchError(ec) ==
    [type |-> "BetterFetchError",
     status |-> ec.error.status,
     statusText |-> ec.error.statusText,
     body |-> IF ec.throwError = "undefined" THEN "error-object" ELSE ec.throwError]

\* the error pair carries the body of the failed response as its data
ErrorResult_WithData(ec) ==
    IF options.throw
    THEN [kind |-> "throw", data |-> "null", error |-> BetterFetchError(ec)]
    ELSE [kind |-> "pair", data |-> "error-body", error |-> ec.error]

\* fetch.ts:84-95
ErrorResult(ec) ==
    IF options.throw
    THEN [kind |-> "throw", data |-> "null", error |-> BetterFetchError(ec)]
    ELSE [kind |-> "pair", data |-> "null", error |-> ec.error]

\* fetch.ts:58-66, 84-95: no retry; the call throws or returns the error pair
GiveUp ==
    /\ pc = "onError"
    /\ LoopDone
    /\ ~WillRetry
    /\ pc' = "done"
    /\ result' = Returned(ErrorResult(errorContext))
    /\ log' = Append(log, <<"retryDecision", 0>>)
    /\ UNCHANGED <<call, url, options, hooks, context, response, data, errorContext, i, active,
                   hookArg, fetchArg, timer, controllerAborted, callerAborted,
                   fetchCalls, errorRuns>>

-----------------------------------------------------------------------------
(* Specification *)

Next ==
    \/ Begin
    \/ SkipHook
    \/ OnRequestCall
    \/ OnRequestReturn
    \/ InvokeTransport
    \/ TimerFires
    \/ CallerAborts
    \/ FetchThrows
    \/ FetchReturns
    \/ OnResponseCall
    \/ OnResponseReturn
    \/ ReturnHead
    \/ ReadBody
    \/ Validate
    \/ OnSuccessCall
    \/ HookReturn
    \/ ReturnSuccess
    \/ ReadErrorText
    \/ OnErrorCall
    \/ DecideRetry
    \/ OnRetryCall
    \/ Delay
    \/ Retry
    \/ GiveUp

Spec == Init /\ [][Next]_vars

\* the steps of the pipeline itself: every hook that was called returns, the
\* transport call settles, the retry delay ends
Pipeline ==
    \/ Begin
    \/ SkipHook
    \/ OnRequestCall
    \/ OnRequestReturn
    \/ InvokeTransport
    \/ FetchThrows
    \/ FetchReturns
    \/ OnResponseCall
    \/ OnResponseReturn
    \/ ReturnHead
    \/ ReadBody
    \/ Validate
    \/ OnSuccessCall
    \/ HookReturn
    \/ ReturnSuccess
    \/ ReadErrorText
    \/ OnErrorCall
    \/ DecideRetry
    \/ OnRetryCall
    \/ Delay
    \/ Retry
    \/ GiveUp

\* the call under the assumption that whatever the pipeline awaits settles
FairSpec == Spec /\ WF_vars(Pipeline)

-----------------------------------------------------------------------------
(* Properties *)

InLog(e) == \E k \in DOMAIN log : log[k] = e

Count(e) == Cardinality({k \in DOMAIN log : log[k] = e})

\* some hook of category c was called in the current attempt
Ran(c) == \E k \in DOMAIN log : log[k][1] = c

\* the current attempt entered handleError (HTTP non-OK or transport failure)
Failed == errorContext.error # NoError

\* the current attempt's transport call threw something other than an abort
NetworkFailed == InLog(<<"fetchThrew", 0>>)

Rejects(e) == result = [kind |-> "throw", data |-> "null", error |-> e]

\* C1: with a retry policy of count N, a call whose attempts all fail with a
\* retry-eligible error invokes the transport exactly N + 1 times (the retry
\* decision is "retry" for attempts 0..N-1 and "give up" for attempt N) and
\* then returns the error pair or throws the structured error.
C1_TransportInvokedNPlusOne ==
    (/\ pc = "done"
     /\ options.retry.kind # "none"
     /\ Failed
     /\ InAllowList(options.retry, errorContext.response))
    => /\ fetchCalls = options.retry.count + 1
       /\ options.retryAttempt = options.retry.count
       /\ result.kind \in {"pair", "throw"}
       /\ result.data = "null"

\* C2: with `throw` set, a call that returns (rather than raises) returns the
\* decoded data directly, never a {data, error} pair, whatever the method.
C2_ThrowReturnsDataDirectly ==
    (pc = "done" /\ options.throw /\ result.kind # "throw") => result.kind = "data"

\* C3: a transport failure that is not an abort, with `throw` unset and no
\* retry following, resolves to {data: null, error} with status 0 and
\* statusText "Network Error"; every onError hook has run, and was handed an
\* Error Context without a response.
C3_NetworkErrorResolves ==
    /\ (pc = "done" /\ NetworkFailed /\ ~options.throw)
        => /\ result.kind = "pair"
           /\ result.data = "null"
           /\ result.error.status = 0
           /\ result.error.statusText = "Network Error"
           /\ \A k \in HookIdx : hooks["onError"][k] => Count(<<"onError", k>>) = 1
    /\ \A h \in active :
        (h[1] = "onError" /\ NetworkFailed) => hookArg.response = NoResponse

C3_Witness ==
    /\ pc = "done"
    /\ NetworkFailed
    /\ ~options.throw
    /\ result.kind = "pair"
    /\ Count(<<"onError", NumHooks>>) = 1

C5_AbortBypassesErrorHandling ==
    InLog(<<"fetchThrew", 1>>)
        => /\ pc = "done"
           /\ Rejects(AbortError)
           /\ ~Failed
           /\ ~Ran("onError")
           /\ ~Ran("onRetry")
           /\ log[Len(log)] = <<"fetchThrew", 1>>
           /\ fetchCalls = options.retryAttempt + 1

C5_Witness ==
    /\ InLog(<<"fetchThrew", 1>>)
    /\ pc = "done"
    /\ ~options.throw
    /\ options.retry.count > options.retryAttempt
    /\ hooks["onError"][NumHooks]

\* C6: when the output schema rejects the decoded body of an OK response, the
\* call rejects with the validation error even with `throw` unset, and
\* handleError is not entered: no onError, onRetry or onSuccess hook runs and
\* no retry is made.
C6_ValidationFailureRejects ==
    InLog(<<"schemaRejected", 0>>)
        => /\ pc = "done"
           /\ Rejects(ValidationError)
           /\ ~Failed
           /\ ~Ran("onError")
           /\ ~Ran("onRetry")
           /\ ~Ran("onSuccess")
           /\ log[Len(log)] = <<"schemaRejected", 0>>
           /\ fetchCalls = options.retryAttempt + 1

C6_Witness ==
    /\ InLog(<<"schemaRejected", 0>>)
    /\ pc = "done"
    /\ ~options.throw
    /\ options.retry.count > options.retryAttempt
    /\ hooks["onSuccess"][NumHooks]

\* C7: the timer of an attempt is armed only while the attempt's transport
\* call is pending; clearTimeout() has been called exactly once by the time
\* the transport call has settled, on the success and on the failure path,
\* and not before, in every attempt.
C7_TimerDisarmedOnSettle ==
    /\ timer.state = "armed" => pc = "fetch"
    /\ pc \in {"start", "onRequest", "fetch"} => timer.clears = IF pc = "start" /\ fetchCalls > 0 THEN 1 ELSE 0
    /\ pc \in {"onResponse", "validate", "onSuccess", "onError", "onRetry", "delay", "done"}
        => timer.clears = 1

C7_Witness ==
    /\ pc = "onError"
    /\ options.timeout
    /\ options.retryAttempt > 0
    /\ NetworkFailed
    /\ timer.state = "cleared"
    /\ timer.clears = 1

\* C8: hooks of one category run one at a time, in list order; a running
\* onRequest hook was handed the context as the previous hook left it, a
\* context replaced by a hook holds nothing of the context it replaces, a
\* running onResponse hook was handed the working response as the previous
\* hook left it, and the transport was handed the context the last onRequest
\* hook left.
C8_HooksSequential ==
    /\ Cardinality(active) <= 1
    /\ \A h \in active : h[1] = pc /\ h[2] = i - 1
    /\ \A a, b \in DOMAIN log :
        (a < b /\ log[a][1] = log[b][1] /\ log[a][1] \in Categories) => log[a][2] < log[b][2]
    /\ \A h \in active : h[1] = "onRequest" => hookArg.context = context
    /\ \A h \in active : h[1] = "onResponse" => hookArg.response = response
    /\ context.url = 1 => [context EXCEPT !.duplex = "absent"] = [NoContext EXCEPT !.url = 1]
    /\ pc = "fetch" => fetchArg = context

C8_Witness ==
    /\ active = {<<"onRequest", NumHooks>>}
    /\ InLog(<<"onRequest", 1>>)
    /\ context.url = 1
    /\ hookArg.context = context

\* C9: every attempt that ends in an HTTP non-OK response or a transport
\* failure that is not an abort has run every registered onError hook exactly
\* once by the time the retry decision is taken, so that a call whose
\* attempts all failed has run each onError hook once per attempt.
C9_OnErrorOncePerFailedAttempt ==
    (Failed /\ pc \in {"onRetry", "delay", "done"})
        => \A k \in HookIdx : hooks["onError"][k]
            => /\ Count(<<"onError", k>>) = 1
               /\ pc = "done" => errorRuns[k] = options.retryAttempt + 1

\* C10: in an attempt the pipeline reads the body of the working response at
\* most once, and no clone made for a hook is taken from a response whose
\* body the pipeline has already read.
C10_ClonesPrecedeBodyRead ==
    /\ Count(<<"read", 0>>) <= 1
    /\ ~InLog(<<"clone", 1>>)

\* C11: when the request the attempt made is a HEAD request (the method of
\* the finalized context) and the working response is OK, the pipeline never
\* reads, decodes or validates the body, and the call yields data "" with a
\* null error.
C11_HeadSkipsBody ==
    (context.method = "HEAD" /\ response.ok)
        => /\ ~InLog(<<"read", 0>>)
           /\ ~response.bodyUsed
           /\ ~InLog(<<"validate", 0>>) /\ ~InLog(<<"validate", 1>>)
           /\ data = "null"
           /\ pc = "done" => result = [kind |-> "pair", data |-> "", error |-> NoError]

C11_Witness ==
    /\ pc = "done"
    /\ context.method = "HEAD"
    /\ response.ok
    /\ response.body # "null"
    /\ options.output /\ ~options.disableValidation
    /\ result.data = ""

\* C12: every invocation of the pipeline, the first and each retry, is given
\* the caller's url and the caller's options, changed only in retryAttempt,
\* which is the number of attempts made before it; it starts from plugin
\* initialization applied to them, with a context built from the outcome, a
\* controller that is not aborted and an unarmed timer, whatever the plugin
\* or the onRequest hooks of earlier attempts changed.
C12_RetryIsFreshInvocation ==
    /\ url = call.url
    /\ options = [call.options EXCEPT !.retryAttempt = options.retryAttempt]
    /\ options.retryAttempt = IF pc \in {"start", "onRequest"} THEN fetchCalls ELSE fetchCalls - 1
    /\ (pc = "onRequest" /\ log = <<>> /\ i = 1 /\ active = {})
        => LET fresh == initializePlugins(call.url, call.options) IN
            /\ context = BuildContext(fresh.url, fresh.options)
            /\ hooks = fresh.hooks
            /\ ~controllerAborted
            /\ timer = NoTimer
            /\ response = NoResponse
            /\ errorContext = NoErrorContext

C12_Witness ==
    /\ pc = "onRequest" /\ log = <<>> /\ i = 1 /\ active = {}
    /\ options.retryAttempt = MaxRetry
    /\ options.request.plugin
    /\ hooks["onRequest"][NumHooks]
    /\ context.url = call.url + 2

\* C13 as stated: whenever the timer has fired while the transport call is
\* pending, the signal handed to the transport is cancelled, whether or not
\* the caller supplied a signal.
C13_TimeoutCancelsEffectiveSignal ==
    (pc = "fetch" /\ timer.state = "fired") => SignalAborted(fetchArg)

\* C13, amended: when the timer has fired while the transport call is
\* pending, the signal handed to the transport is cancelled and the call can
\* only fail with the abort exception, provided the caller supplied no signal
\* and no onRequest hook replaced the context; when the caller supplied a
\* signal, that signal is the one handed to the transport and the timer
\* leaves it alone.
C13_TimeoutCancelsInternalSignal ==
    /\ (pc = "fetch" /\ timer.state = "fired" /\ ~options.signal /\ fetchArg.url # 1)
        => /\ SignalAborted(fetchArg)
           /\ TransportErrors(fetchArg) = {"AbortError"}
           /\ ~ENABLED FetchReturns
    /\ (pc = "fetch" /\ timer.state = "fired" /\ options.signal /\ fetchArg.url # 1)
        => /\ fetchArg.signal = "caller"
           /\ SignalAborted(fetchArg) = callerAborted

C13_Witness ==
    /\ pc = "fetch"
    /\ timer.state = "fired"
    /\ ~options.signal
    /\ fetchArg.signal = "internal"
    /\ controllerAborted

\* C14: an attempt whose transport call failed without a response is not
\* given up while the retry policy has attempts left, and no onRetry hook
\* runs in it; in an attempt that is retried after an HTTP non-OK response,
\* by the time of the retry delay every registered onRetry hook has run
\* exactly once, after every onError hook, and the next transport call has
\* not been made.
C14_RetryHooksNeedResponse ==
    /\ (NetworkFailed /\ options.retry.kind # "none"
            /\ options.retryAttempt < options.retry.count)
        => pc # "done"
    /\ NetworkFailed
        => /\ ~Ran("onRetry")
           /\ errorContext.response = NoResponse
    /\ (pc = "delay" /\ ~NetworkFailed)
        => /\ errorContext.response # NoResponse
           /\ ~errorContext.response.ok
           /\ active = {}
           /\ \A k \in HookIdx : hooks["onRetry"][k] <=> Count(<<"onRetry", k>>) = 1
           /\ \A k \in HookIdx : hooks["onError"][k] <=> Count(<<"onError", k>>) = 1
           /\ \A a, b \in DOMAIN log :
                /\ (log[a][1] = "onError" /\ log[b][1] = "onRetry") => a < b
                /\ (log[a][1] = "onRetry" /\ log[b][1] = "delay") => a < b
           /\ fetchCalls = options.retryAttempt + 1

C14_Witness ==
    /\ pc = "delay"
    /\ NetworkFailed
    /\ hooks["onRetry"][NumHooks]
    /\ Count(<<"onError", NumHooks>>) = 1
    /\ options.retry.statusCodes = "503"

\* C15: the result of a call is exactly what its last attempt produced,
\* whatever the number of attempts before it: the abort, validation or clone
\* exception it threw; after a failure its error handling's outcome (the
\* structured error thrown, or the pair with the error); after an OK
\* response the data, directly when `throw` is set and in a pair otherwise.
C15_ResultIsLastAttempts ==
    pc = "done"
        => result =
            IF InLog(<<"fetchThrew", 1>>)
                THEN [kind |-> "throw", data |-> "null", error |-> AbortError]
            ELSE IF InLog(<<"schemaRejected", 0>>)
                THEN [kind |-> "throw", data |-> "null", error |-> ValidationError]
            ELSE IF InLog(<<"clone", 1>>)
                THEN [kind |-> "throw", data |-> "null", error |-> TypeError]
            ELSE IF Failed /\ options.throw
                THEN [kind |-> "throw", data |-> "null",
                      error |-> BetterFetchError(errorContext)]
            ELSE IF Failed
                THEN [kind |-> "pair", data |-> "null", error |-> errorContext.error]
            ELSE IF context.method = "HEAD"
                THEN [kind |-> "pair", data |-> "", error |-> NoError]
            ELSE IF options.throw
                THEN [kind |-> "data", data |-> data, error |-> NoError]
            ELSE [kind |-> "pair", data |-> data, error |-> NoError]

C15_Witness ==
    /\ pc = "done"
    /\ options.retryAttempt = MaxRetry
    /\ options.throw
    /\ result.kind = "data"
    /\ result.data # "null"

\* C16: an onResponse hook that returns nothing leaves the working response
\* as it is, and one that returns a response, bare or in a `response` field,
\* makes that response the working response; the branch is taken on the
\* working response as the hooks left it: with an OK one the attempt takes
\* the success path and runs no error handling, no onError or onRetry hook,
\* with a non-OK one it takes the error path and never reads data or runs an
\* onSuccess hook.
C16_BranchOnWorkingResponse ==
    /\ [](\A h \in active : h[1] = "onResponse"
            => \A r \in ResponseResults :
                ENABLED (OnResponseReturn
                         /\ response' = IF r.shape = "void" THEN response ELSE r.response))
    /\ [][(pc = "onResponse" /\ active # {} /\ active' = {})
            => \E r \in ResponseResults :
                response' = IF r.shape = "void" THEN response ELSE r.response]_vars
    /\ []((pc \in {"validate", "onSuccess", "onError", "onRetry", "delay", "done"}
                /\ response.ok)
            => (~Failed /\ ~Ran("onError") /\ ~Ran("onRetry")
                    /\ ~InLog(<<"handleError", 0>>)))
    /\ []((pc \in {"validate", "onSuccess", "onError", "onRetry", "delay", "done"}
                /\ response # NoResponse /\ ~response.ok)
            => (Failed /\ errorContext.response.status = response.status
                    /\ ~Ran("onSuccess") /\ data = "null"
                    /\ ~InLog(<<"validate", 0>>) /\ ~InLog(<<"validate", 1>>)))

C16_Witness ==
    /\ pc = "onResponse"
    /\ active = {<<"onResponse", NumHooks>>}
    /\ response # NoResponse
    /\ ~response.ok
    /\ hookArg.response = response
    /\ ENABLED (OnResponseReturn /\ response'.ok)

\* C17 as stated: when error handling delivers the outcome of an attempt
\* whose non-OK response has a body text that is not JSON, the error value
\* the caller gets (the body of the thrown structured error with `throw`,
\* the returned `error` without) is the raw text, and it carries the
\* response's status and statusText.
C17_RawTextIsErrorValue ==
    (pc = "done" /\ InLog(<<"retryDecision", 0>>) /\ ~NetworkFailed
            /\ ~isJSONParsable(errorContext.response.body))
        => /\ result.error.body = IF errorContext.response.body = "null" THEN "" ELSE "raw-text"
           /\ result.error.status = errorContext.response.status
           /\ result.error.statusText = StatusText(errorContext.response.status)

\* C18 as stated: whenever the body of the context handed to the transport
\* is stream-like (it has `pipeTo`, or it is a pipe-style stream), that
\* context has duplex set to half (no call sets duplex itself here).
C18_StreamBodyGetsHalfDuplex ==
    (fetchArg # NoContext /\ fetchArg.body \in {"pipe", "pipeTo"})
        => fetchArg.duplex = "half"

\* C19: the attempt counter handed to an invocation is the number of
\* attempts made before it, whatever plugin initialization returns for it
\* and whatever onRequest hooks do; it never passes the retry policy's limit,
\* the transport is invoked at most limit + 1 times, and, everything the
\* pipeline awaits settling, the call ends.
C19_CallTerminates ==
    /\ [](options.retryAttempt <= options.retry.count)
    /\ [](fetchCalls <= options.retry.count + 1)
    /\ [](fetchCalls \in {options.retryAttempt, options.retryAttempt + 1})
    /\ [](pc = "done" => result # Pending)
    /\ <>(pc = "done")

C19_Witness ==
    /\ pc = "done"
    /\ options.request.plugin
    /\ Opts.retryAttempt = 0
    /\ options.retryAttempt = MaxRetry
    /\ fetchCalls = MaxRetry + 1
    /\ hooks["onRequest"][NumHooks]

\* C20: a call made without `throw` that resolves does so with a pair in
\* which data and error are never both set: either the error is null, or
\* the data is null and the error carries the status and statusText of the
\* failed attempt; and no attempt runs both an onSuccess and an onError hook.
C20_DataXorError ==
    /\ (pc = "done" /\ ~options.throw /\ result.kind # "throw")
        => /\ result.kind = "pair"
           /\ \/ result.error = NoError /\ ~Failed
              \/ /\ result.data = "null"
                 /\ Failed
                 /\ result.error.status =
                        IF NetworkFailed THEN NetworkErrorStatus
                        ELSE errorContext.response.status
                 /\ result.error.statusText =
                        IF NetworkFailed THEN "Network Error"
                        ELSE StatusText(errorContext.response.status)
    /\ ~(Ran("onSuccess") /\ Ran("onError"))

C20_Witness ==
    /\ pc = "done"
    /\ ~options.throw
    /\ result.kind = "pair"
    /\ result.data = "null"
    /\ result.error # NoError
    /\ ~NetworkFailed
    /\ Count(<<"onError", NumHooks>>) = 1

====
